---- MODULE Spec2Model ----
(***************************************************************************)
(* Rigid-body transformation algebra of libwave                            *)
(* (wave_geometry/impl/transformation_impl.hpp).                           *)
(*                                                                         *)
(* A `double` is modelled as a fixed-point integer: the integer n stands   *)
(* for the real n / Scale.  Three integers outside the finite range stand  *)
(* for the non-finite doubles.  Every arithmetic step of the source is     *)
(* carried out in that representation, rounding to the nearest unit as a   *)
(* floating-point unit rounds to the nearest double.                       *)
(***************************************************************************)
EXTENDS Integers, Sequences, FiniteSets, TLC

\* ------------------------------------------------------------------ double

\* units per 1.0 (the resolution of the modelled double)
Scale == 10^3

\* the largest magnitude of a finite double; NaN and the infinities lie beyond it
MaxDouble == 2^20
NaN == 2^28
Inf == 2^28 - 1
NegInf == -Inf

IsFinite(x) == -MaxDouble <= x /\ x <= MaxDouble

\* a result beyond the largest finite double is non-finite, written NaN whichever
\* non-finite value it is
Fin(x) == IF IsFinite(x) THEN x ELSE NaN

Abs(x) == IF x < 0 THEN -x ELSE x

\* n / d rounded to the nearest integer, ties away from zero (d > 0)
Rnd(n, d) == IF n >= 0 THEN (n + d \div 2) \div d ELSE -((d \div 2 - n) \div d)

\* the decimal literal num/den of the source as a double
Dec(num, den) == Rnd(num * Scale, den)

\* a + b, a - b, a * b and a / b on doubles: an operation with a non-finite
\* operand, and x / 0, give a non-finite result
FAdd(a, b) == IF IsFinite(a) /\ IsFinite(b) THEN Fin(a + b) ELSE NaN
FSub(a, b) == IF IsFinite(a) /\ IsFinite(b) THEN Fin(a - b) ELSE NaN
Mul(a, b) ==
    IF IsFinite(a) /\ IsFinite(b)
    THEN LET p == Abs(a) * (Abs(b) \div Scale)
                  + (Abs(a) * (Abs(b) % Scale) + Scale \div 2) \div Scale
         IN Fin(IF (a < 0) = (b < 0) THEN p ELSE -p)
    ELSE NaN
Div(a, b) ==
    IF IsFinite(a) /\ IsFinite(b) /\ b # 0
    THEN Fin(IF b > 0 THEN Rnd(a * Scale, b) ELSE -Rnd(a * Scale, -b))
    ELSE NaN

\* floor of the square root of a natural number
RECURSIVE ISqrtBetween(_, _, _)
ISqrtBetween(n, lo, hi) ==
    IF lo >= hi THEN lo
    ELSE LET mid == (lo + hi + 1) \div 2
         IN IF mid * mid <= n THEN ISqrtBetween(n, mid, hi) ELSE ISqrtBetween(n, lo, mid - 1)

ISqrt(n) == ISqrtBetween(n, 0, 46340)

\* nearest integer to the square root of a natural number
RSqrt(n) == LET r == ISqrt(n) IN IF n - r * r > r THEN r + 1 ELSE r

\* <cmath>'s sin, cos and acos are evaluated with SubScale times the resolution
\* of a double and rounded once, so that they are correct to the nearest unit
SubScale == 10
HiScale == Scale * SubScale
PiHi == Rnd(355 * HiScale, 113)
Pi == Rnd(PiHi, SubScale)

\* term - term*x^2/(k(k+1)) + ... : the power series, summed until its terms vanish
RECURSIVE SeriesSum(_, _, _, _)
SeriesSum(term, x2, k, acc) ==
    IF term = 0 THEN acc
    ELSE SeriesSum(-Rnd(Rnd(term * x2, HiScale), k * (k + 1)), x2, k + 2, acc + term)

\* sin and cos of xh in [0, pi/2], argument and value in units of 1/HiScale
SinHi0(xh) == SeriesSum(xh, Rnd(xh * xh, HiScale), 2, 0)
CosHi0(xh) == SeriesSum(HiScale, Rnd(xh * xh, HiScale), 1, 0)

\* the same for xh in [-pi, pi]
SinHi(xh) ==
    LET a == Abs(xh)
        s == IF 2 * a > PiHi THEN SinHi0(PiHi - a) ELSE SinHi0(a)
    IN IF xh < 0 THEN -s ELSE s
CosHi(xh) ==
    LET a == Abs(xh)
    IN IF 2 * a > PiHi THEN -CosHi0(PiHi - a) ELSE CosHi0(a)

\* the angle x brought into [-pi, pi), in units of 1/HiScale
Reduced(x) == ((x * SubScale + PiHi) % (2 * PiHi)) - PiHi

\* std::sin, std::cos
Sin(x) == IF IsFinite(x) THEN Rnd(SinHi(Reduced(x)), SubScale) ELSE NaN
Cos(x) == IF IsFinite(x) THEN Rnd(CosHi(Reduced(x)), SubScale) ELSE NaN

\* the least angle in lo..hi whose cosine is at most c (cos decreases on [0, pi])
RECURSIVE AcosBetween(_, _, _)
AcosBetween(c, lo, hi) ==
    IF lo >= hi THEN lo
    ELSE LET mid == (lo + hi) \div 2
         IN IF CosHi(mid * SubScale) <= c * SubScale
            THEN AcosBetween(c, lo, mid) ELSE AcosBetween(c, mid + 1, hi)

\* acos of c in [0, 1]: the angle in [0, pi/2] with the nearest cosine
AcosPos(c) ==
    LET a == AcosBetween(c, 0, Pi)
    IN IF a > 0 /\ Abs(CosHi((a - 1) * SubScale) - c * SubScale)
                    <= Abs(CosHi(a * SubScale) - c * SubScale)
       THEN a - 1 ELSE a

\* std::acos: NaN outside [-1, 1]
Acos(x) ==
    IF x > Scale \/ x < -Scale THEN NaN
    ELSE IF x >= 0 THEN AcosPos(x) ELSE Pi - AcosPos(-x)

\* ------------------------------------------------------------- Eigen types
\* Vec3, Vec6: tuples; Mat3, Mat4, Mat6 and the 3x4 Derived: tuples of rows

I3 == 1..3
I6 == 1..6

\* a vector or matrix given by its entries, stored as a tuple (of tuples)
V3(f(_)) == <<f(1), f(2), f(3)>>
V6(f(_)) == <<f(1), f(2), f(3), f(4), f(5), f(6)>>
M3(f(_, _)) == V3(LAMBDA i : <<f(i, 1), f(i, 2), f(i, 3)>>)
M6(f(_, _)) == V6(LAMBDA i : <<f(i, 1), f(i, 2), f(i, 3), f(i, 4), f(i, 5), f(i, 6)>>)

Zero3 == <<0, 0, 0>>
Zero6 == <<0, 0, 0, 0, 0, 0>>
Identity3 == <<<<Scale, 0, 0>>, <<0, Scale, 0>>, <<0, 0, Scale>>>>
Identity6 == M6(LAMBDA i, j : IF i = j THEN Scale ELSE 0)
ZeroMat6 == M6(LAMBDA i, j : 0)
NaNVec3 == <<NaN, NaN, NaN>>
NaNVec6 == <<NaN, NaN, NaN, NaN, NaN, NaN>>
NaNMat3 == <<NaNVec3, NaNVec3, NaNVec3>>
NaNMat6 == <<NaNVec6, NaNVec6, NaNVec6, NaNVec6, NaNVec6, NaNVec6>>

\* allFinite()
AllFiniteVec(v) == \A i \in DOMAIN v : IsFinite(v[i])
AllFiniteMat(m) == \A i \in DOMAIN m : AllFiniteVec(m[i])

\* block<3, 3>(0, 0), block<3, 1>(0, 3) and block<3, 4>(0, 0) of a 3x4 or 4x4 matrix
Block33(m) == M3(LAMBDA i, j : m[i][j])
Block31(m) == V3(LAMBDA i : m[i][4])
Block34(m) == V3(LAMBDA i : m[i])
\* the 3x4 matrix with rotation block R and translation block t
Mat34(R, t) == V3(LAMBDA i : <<R[i][1], R[i][2], R[i][3], t[i]>>)
\* block<3, 1>(0, 0) and block<3, 1>(3, 0) of a Vec6
Head3(W) == <<W[1], W[2], W[3]>>
Tail3(W) == <<W[4], W[5], W[6]>>

\* finite linear algebra, each product rounded to a double
Dot3(a, b) == FAdd(FAdd(Mul(a[1], b[1]), Mul(a[2], b[2])), Mul(a[3], b[3]))
Col3(M, j) == <<M[1][j], M[2][j], M[3][j]>>
MatVec3(M, v) == V3(LAMBDA i : Dot3(M[i], v))
MatMul3(A, B) == M3(LAMBDA i, j : Dot3(A[i], Col3(B, j)))
Transpose3(M) == M3(LAMBDA i, j : M[j][i])
MatAdd3(A, B) == M3(LAMBDA i, j : FAdd(A[i][j], B[i][j]))
MatSub3(A, B) == M3(LAMBDA i, j : FSub(A[i][j], B[i][j]))
MatNeg3(A) == M3(LAMBDA i, j : -A[i][j])
MatScale3(c, A) == M3(LAMBDA i, j : Mul(c, A[i][j]))
VecAdd3(a, b) == V3(LAMBDA i : FAdd(a[i], b[i]))
VecSub3(a, b) == V3(LAMBDA i : FSub(a[i], b[i]))
VecNeg3(a) == V3(LAMBDA i : -a[i])
Trace3(M) == FAdd(FAdd(M[1][1], M[2][2]), M[3][3])
\* determinant(), by cofactors of the first row
Det3(M) ==
    FAdd(FSub(Mul(M[1][1], FSub(Mul(M[2][2], M[3][3]), Mul(M[2][3], M[3][2]))),
              Mul(M[1][2], FSub(Mul(M[2][1], M[3][3]), Mul(M[2][3], M[3][1])))),
         Mul(M[1][3], FSub(Mul(M[2][1], M[3][2]), Mul(M[2][2], M[3][1]))))
\* norm() of a Vec3
\* (entries too large to square are measured in units of 64)
Norm3(v) ==
    IF ~(IsFinite(v[1]) /\ IsFinite(v[2]) /\ IsFinite(v[3])) THEN NaN
    ELSE IF Abs(v[1]) <= 26000 /\ Abs(v[2]) <= 26000 /\ Abs(v[3]) <= 26000
    THEN RSqrt(v[1] * v[1] + v[2] * v[2] + v[3] * v[3])
    ELSE Fin(64 * RSqrt((v[1] \div 64) * (v[1] \div 64) + (v[2] \div 64) * (v[2] \div 64)
                        + (v[3] \div 64) * (v[3] \div 64)))

Dot6(a, b) == FAdd(Dot3(Head3(a), Head3(b)), Dot3(Tail3(a), Tail3(b)))
MatVec6(M, v) == V6(LAMBDA i : Dot6(M[i], v))
Col6(M, j) == <<M[1][j], M[2][j], M[3][j], M[4][j], M[5][j], M[6][j]>>
MatMul6(A, B) == M6(LAMBDA i, j : Dot6(A[i], Col6(B, j)))
MatAdd6(A, B) == M6(LAMBDA i, j : FAdd(A[i][j], B[i][j]))
MatScale6(c, A) == M6(LAMBDA i, j : Mul(c, A[i][j]))
\* the 6x6 matrix of four 3x3 blocks
Blocks6(UL, UR, LL, LR) ==
    M6(LAMBDA i, j :
        IF i <= 3 THEN (IF j <= 3 THEN UL[i][j] ELSE UR[i][j - 3])
        ELSE (IF j <= 3 THEN LL[i - 3][j] ELSE LR[i - 3][j - 3]))
ZeroMat3 == <<Zero3, Zero3, Zero3>>

\* ------------------------------------------------------ Transformation

\* skewSymmetric3
skewSymmetric3(V) == <<<<0, -V[3], V[2]>>, <<V[3], 0, -V[1]>>, <<-V[2], V[1], 0>>>>

\* coefficients whose trigonometric branch is also taken at wn = tol
expMapCoefficientsInclusive(wn, tol) ==
    IF IsFinite(wn) /\ wn >= tol
    THEN [branch |-> "trig", divisors |-> {wn, Mul(wn, wn)},
          A |-> Div(Sin(wn), wn),
          B |-> Div(FSub(Scale, Cos(wn)), Mul(wn, wn)),
          C |-> Div(FSub(Scale, Div(Sin(wn), wn)), Mul(wn, wn))]
    ELSE [branch |-> "taylor", divisors |-> {},
          A |-> Scale, B |-> Dec(1, 2), C |-> Dec(16667, 100000)]

\* the coefficients A, B, C of expMap in exact mode; branch and divisors record
\* the branch taken and the values divided by
expMapCoefficients(wn, tol) ==
    IF IsFinite(wn) /\ wn > tol
    THEN LET A == Div(Sin(wn), wn)
         IN [branch |-> "trig", divisors |-> {wn, Mul(wn, wn)},
             A |-> A,
             B |-> Div(FSub(Scale, Cos(wn)), Mul(wn, wn)),
             C |-> Div(FSub(Scale, A), Mul(wn, wn))]
    ELSE LET w2 == Mul(wn, wn)
             w4 == Mul(Mul(Mul(wn, wn), wn), wn)
         IN [branch |-> "taylor", divisors |-> {},
             A |-> FAdd(FSub(Scale, Mul(Dec(16667, 100000), w2)), Mul(Dec(8333, 1000000), w4)),
             B |-> FAdd(FSub(Dec(1, 2), Mul(Dec(41667, 1000000), w2)),
                        Mul(Dec(1389, 1000000), w4)),
             C |-> FAdd(FSub(Dec(16667, 100000), Mul(Dec(8333, 1000000), w2)),
                        Mul(Dec(1984, 10000000), w4))]

\* expMap(W, TOL) of a finite twist: the 4x4 matrix returned, with the branch taken
expMapFull(W, tol, approx) ==
    LET bottom == <<0, 0, 0, Scale>>
        \* R = I + a * wx + b * wx * wx and V = I + b * wx + c * wx * wx
        Mapped(wx, a, b, c, branch, divisors) ==
            [branch |-> branch, divisors |-> divisors,
             m |-> Mat34(MatAdd3(MatAdd3(Identity3, MatScale3(a, wx)),
                                 MatMul3(MatScale3(b, wx), wx)),
                         MatVec3(MatAdd3(MatAdd3(Identity3, MatScale3(b, wx)),
                                         MatMul3(MatScale3(c, wx), wx)),
                                 Tail3(W)))
                   \o <<bottom>>]
        \* 2nd order taylor expansion
        Approximate(wx, w2) ==
            Mapped(wx, FSub(Scale, Mul(Dec(16667, 100000), w2)),
                   FSub(Dec(1, 2), Mul(Dec(41667, 1000000), w2)),
                   FSub(Dec(16667, 100000), Mul(Dec(8333, 1000000), w2)),
                   "approx", {})
        Exact(wx, k) ==
            IF IsFinite(k.A) /\ IsFinite(k.B) /\ IsFinite(k.C)
            THEN Mapped(wx, k.A, k.B, k.C, k.branch, k.divisors)
            ELSE [branch |-> k.branch, divisors |-> k.divisors,
                  m |-> Mat34(NaNMat3, NaNVec3) \o <<bottom>>]
        Branch(wx, wn) ==
            IF approx THEN Approximate(wx, Mul(wn, wn))
            ELSE Exact(wx, expMapCoefficients(wn, tol))
    IN Branch(skewSymmetric3(Head3(W)), Norm3(Head3(W)))

\* expMap: the matrix alone; a non-finite twist gives a non-finite matrix
expMap(W, tol, approx) ==
    IF AllFiniteVec(W) THEN expMapFull(W, tol, approx).m
    ELSE Mat34(NaNMat3, NaNVec3) \o <<<<0, 0, 0, Scale>>>>

\* the Vec6 read off the transposed entries of the skew matrix
TwistOfTransposed(skew, v) == <<skew[2][3], skew[3][1], skew[1][2], v[1], v[2], v[3]>>

\* the Vec6 read off a skew matrix and a coupled part
TwistOf(skew, v) == <<skew[3][2], skew[1][3], skew[2][1], v[1], v[2], v[3]>>

\* logMap(tolerance) of the stored matrix m: the twist returned, with the argument
\* handed to std::acos (acosCalled, acosArg), the angle wn, the branch taken and
\* the values divided by
logMapFull(m, tolerance, approx) ==
    IF ~AllFiniteMat(m)
    THEN [twist |-> NaNVec6, acosCalled |-> TRUE, acosArg |-> NaN, wn |-> NaN,
          branch |-> IF approx THEN "approx" ELSE "taylor", divisors |-> {}]
    ELSE
    LET R == Block33(m)
        t == Block31(m)
        arg == Div(FSub(Trace3(R), Scale), 2 * Scale)
        \* Need to pander to ceres gradient checker a bit here
        clamped == IsFinite(arg) /\ arg > Scale
        RmRt == MatSub3(R, Transpose3(R))
        \* the twist of skew = A * (R - R^T) and Vinv = I - skew/2 + c * skew^2,
        \* where the branches without a c term have c = 0
        Twist(A, c) ==
            LET skew == MatScale3(A, RmRt)
                Vinv == MatAdd3(MatSub3(Identity3, MatScale3(Dec(1, 2), skew)),
                                MatMul3(MatScale3(c, skew), skew))
            IN TwistOf(skew, MatVec3(Vinv, t))
        Trig(wn, A, AB4, divs) ==
            LET c == Mul(Div(Scale, Mul(wn, wn)), FSub(Scale, Div(Scale, AB4)))
            IN IF IsFinite(A) /\ IsFinite(c)
               THEN [twist |-> Twist(A, c), divisors |-> divs]
               ELSE [twist |-> NaNVec6, divisors |-> divs]
        Rest(wn) ==
            LET taken == IF approx THEN "approx"
                         ELSE IF IsFinite(wn) /\ wn > tolerance THEN "trig" ELSE "taylor"
                common == [acosCalled |-> ~clamped, acosArg |-> arg, wn |-> wn,
                           branch |-> taken]
            IN IF ~IsFinite(wn)
               THEN common @@ [twist |-> NaNVec6, divisors |-> {}]
               ELSE IF approx
               THEN \* 2nd order taylor expansion
                    common @@ [twist |-> Twist(FAdd(Dec(1, 2), Mul(Mul(wn, wn), Dec(83333, 1000000))), 0),
                               divisors |-> {}]
               ELSE IF wn > tolerance
               THEN LET sn == Sin(wn)
                        w2 == Mul(wn, wn)
                        A == Div(wn, 2 * sn)
                        B == Div(FSub(Scale, Cos(wn)), w2)
                        AB4 == Mul(Mul(4 * Scale, A), B)
                    IN common @@ Trig(wn, A, AB4, {2 * sn, w2, AB4})
               ELSE \* Third order taylor expansion
                    LET w2 == Mul(wn, wn)
                        w4 == Mul(Mul(Mul(wn, wn), wn), wn)
                    IN common @@ [twist |-> Twist(FAdd(FAdd(Dec(1, 2), Div(w2, 12 * Scale)),
                                                       Mul(w4, Dec(7, 720))), 0),
                                  divisors |-> {}]
    IN Rest(IF clamped THEN 0 ELSE Acos(arg))

\* logMap: the twist alone
logMap(m, tolerance, approx) == logMapFull(m, tolerance, approx).twist

\* the adjoint operator applied to the se(3) vector: se(3) -> adj(se(3))
adjOf(W) ==
    LET wx == skewSymmetric3(Head3(W))
    IN Blocks6(wx, ZeroMat3, skewSymmetric3(Tail3(W)), wx)

\* SE3LeftJacobian(W, TOL) of a finite twist, with the branch taken and the
\* values divided by
SE3LeftJacobianFull(W, tol) ==
    LET Series(adj, A, B, C, D, divs) ==
            IF IsFinite(A) /\ IsFinite(B) /\ IsFinite(C) /\ IsFinite(D)
            THEN [branch |-> "trig", divisors |-> divs,
                  J |-> MatAdd6(MatAdd6(MatAdd6(MatAdd6(Identity6, MatScale6(A, adj)),
                                                MatMul6(MatScale6(B, adj), adj)),
                                        MatMul6(MatMul6(MatScale6(C, adj), adj), adj)),
                                MatMul6(MatMul6(MatMul6(MatScale6(D, adj), adj), adj), adj))]
            ELSE [branch |-> "trig", divisors |-> divs, J |-> NaNMat6]
        Coefficients(adj, wn, s, c, w2, w3, w4, w5) ==
            Series(adj,
                   Div(FSub(FSub(4 * Scale, Mul(wn, s)), 4 * c), 2 * w2),
                   Div(FAdd(FSub(4 * wn, 5 * s), Mul(wn, c)), 2 * w3),
                   Div(FSub(FSub(2 * Scale, Mul(wn, s)), 2 * c), 2 * w4),
                   Div(FAdd(FSub(2 * wn, 3 * s), Mul(wn, c)), 2 * w5),
                   {2 * w2, 2 * w3, 2 * w4, 2 * w5})
        Powers5(adj, wn, w2, w3, w4) ==
            Coefficients(adj, wn, Sin(wn), Cos(wn), w2, w3, w4, Mul(w4, wn))
        Powers4(adj, wn, w2, w3) == Powers5(adj, wn, w2, w3, Mul(w3, wn))
        Powers3(adj, wn, w2) == Powers4(adj, wn, w2, Mul(w2, wn))
        Jacobian(adj, wn) ==
            IF IsFinite(wn) /\ wn > tol
            THEN Powers3(adj, wn, Mul(wn, wn))
            ELSE \* First order taylor expansion
                 [branch |-> "taylor", divisors |-> {},
                  J |-> MatAdd6(Identity6, MatScale6(Dec(1, 2), adj))]
    IN Jacobian(adjOf(W), Norm3(Head3(W)))

SE3LeftJacobian(W, tol) ==
    IF AllFiniteVec(W) THEN SE3LeftJacobianFull(W, tol).J ELSE NaNMat6

\* SE3ApproxLeftJacobian
SE3ApproxLeftJacobian(W) ==
    IF ~AllFiniteVec(W) THEN NaNMat6
    ELSE LET adj == adjOf(W)
         IN MatAdd6(MatAdd6(Identity6, MatScale6(Dec(1, 2), adj)),
                    MatMul6(MatScale6(Dec(16667, 100000), adj), adj))

\* SE3ApproxInvLeftJacobian
SE3ApproxInvLeftJacobian(W) ==
    IF ~AllFiniteVec(W) THEN NaNMat6
    ELSE LET adj == adjOf(W)
         IN MatAdd6(MatAdd6(Identity6, MatScale6(-Dec(1, 2), adj)),
                    MatMul6(MatScale6(Dec(83333, 1000000), adj), adj))

\* Eigen's inverse() of a Mat6: elimination with partial pivoting on [A | B];
\* a zero pivot gives a non-finite inverse
RECURSIVE Eliminate(_, _, _)
Eliminate(A, B, k) ==
    IF k > 6 THEN B
    ELSE LET p == CHOOSE r \in k..6 : \A q \in k..6 : Abs(A[r][k]) >= Abs(A[q][k])
             swap(M) == [M EXCEPT ![k] = M[p], ![p] = M[k]]
             A1 == swap(A)
             B1 == swap(B)
             piv == A1[k][k]
         IN IF piv = 0 THEN NaNMat6
            ELSE LET rowA == V6(LAMBDA j : Div(A1[k][j], piv))
                     rowB == V6(LAMBDA j : Div(B1[k][j], piv))
                     A2 == M6(LAMBDA i, j : IF i = k THEN rowA[j]
                                            ELSE FSub(A1[i][j], Mul(A1[i][k], rowA[j])))
                     B2 == M6(LAMBDA i, j : IF i = k THEN rowB[j]
                                            ELSE FSub(B1[i][j], Mul(A1[i][k], rowB[j])))
                 IN Eliminate(A2, B2, k + 1)

Inverse6(M) == IF AllFiniteMat(M) THEN Eliminate(M, Identity6, 1) ELSE NaNMat6

\* inverse() of a Mat3 by cofactors; a zero determinant gives a non-finite inverse
Inverse3(M) ==
    LET det == Det3(M)
        cof(i, j) ==
            LET r1 == (i % 3) + 1
                r2 == ((i + 1) % 3) + 1
                c1 == (j % 3) + 1
                c2 == ((j + 1) % 3) + 1
            IN FSub(Mul(M[r1][c1], M[r2][c2]), Mul(M[r1][c2], M[r2][c1]))
    IN IF det = 0 THEN NaNMat3 ELSE M3(LAMBDA i, j : Div(cof(j, i), det))

\* most iterations of the square-root iteration below
SqrtIterations == 8

\* the largest entry of |Y*Y - M|
SqrtResidual(Y, M) ==
    LET D == MatSub3(MatMul3(Y, Y), M)
    IN CHOOSE r \in {Abs(D[i][j]) : i \in I3, j \in I3} :
          \A i \in I3, j \in I3 : Abs(D[i][j]) <= r

\* sqrt() of a symmetric positive definite Mat3: the principal square root, by the
\* coupled iteration Y <- (Y + Z^-1)/2, Z <- (Z + Y^-1)/2 from Y = M, Z = I, run
\* until Y*Y stops getting nearer to M
RECURSIVE SqrtIterate(_, _, _, _)
SqrtIterate(M, Y, Z, k) ==
    IF k = 0 THEN Y
    ELSE LET Yi == Inverse3(Y)
             Zi == Inverse3(Z)
             Y1 == M3(LAMBDA i, j : Div(FAdd(Y[i][j], Zi[i][j]), 2 * Scale))
             Z1 == M3(LAMBDA i, j : Div(FAdd(Z[i][j], Yi[i][j]), 2 * Scale))
         IN IF ~AllFiniteMat(Yi) \/ ~AllFiniteMat(Zi) THEN NaNMat3
            ELSE IF SqrtResidual(Y1, M) >= SqrtResidual(Y, M) THEN Y
            ELSE SqrtIterate(M, Y1, Z1, k - 1)

Sqrt3(M) == SqrtIterate(M, M, Identity3, SqrtIterations)

\* checkMatrixFinite: TRUE when the check passes, FALSE when it raises
checkMatrixFinite(m) == AllFiniteMat(m)
checkVectorFinite(v) == AllFiniteVec(v)

\* the default-constructed element, and setIdentity
IdentityMatrix == Mat34(Identity3, Zero3)

\* Eigen::AngleAxisd about the unit axes, as rotation matrices
AngleAxisX(a) == <<<<Scale, 0, 0>>, <<0, Cos(a), -Sin(a)>>, <<0, Sin(a), Cos(a)>>>>
AngleAxisY(a) == <<<<Cos(a), 0, Sin(a)>>, <<0, Scale, 0>>, <<-Sin(a), 0, Cos(a)>>>>
AngleAxisZ(a) == <<<<Cos(a), -Sin(a), 0>>, <<Sin(a), Cos(a), 0>>, <<0, 0, Scale>>>>

\* setFromEulerXYZ past its checks: the matrix stored
setFromEulerXYZ(eulers, translation) ==
    Mat34(MatMul3(MatMul3(AngleAxisZ(eulers[3]), AngleAxisY(eulers[2])), AngleAxisX(eulers[1])),
          translation)

\* the product taken in the other order, T * m
ComposeReversed(m, T) ==
    IF AllFiniteMat(m) /\ AllFiniteMat(T)
    THEN Mat34(MatMul3(Block33(T), Block33(m)),
               VecAdd3(MatVec3(Block33(T), Block31(m)), Block31(T)))
    ELSE Mat34(NaNMat3, NaNVec3)

\* operator*: the matrix of the composed element
Compose(m, T) ==
    IF AllFiniteMat(m) /\ AllFiniteMat(T)
    THEN Mat34(MatMul3(Block33(m), Block33(T)),
               VecAdd3(MatVec3(Block33(m), Block31(T)), Block31(m)))
    ELSE Mat34(NaNMat3, NaNVec3)

\* an inversion that transposes R and rotates t without changing its sign
invertUnsigned(m) ==
    IF AllFiniteMat(m)
    THEN Mat34(Transpose3(Block33(m)), MatVec3(Transpose3(Block33(m)), Block31(m)))
    ELSE Mat34(NaNMat3, NaNVec3)

\* invert: the matrix stored
invert(m) ==
    IF AllFiniteMat(m)
    THEN LET Rt == Transpose3(Block33(m))
         IN Mat34(Rt, MatVec3(MatNeg3(Rt), Block31(m)))
    ELSE Mat34(NaNMat3, NaNVec3)

\* getMatrix, and the t_matrix of inverse(): the 4x4 matrix of an element
getMatrix(m) == m \o <<<<0, 0, 0, Scale>>>>

\* setFromMatrix past its check: the matrix stored
setFromMatrix(input_matrix) == Block34(input_matrix)

\* inverse(): raises when setFromMatrix does, else the matrix of the new element
inverseRaises(m) == ~checkMatrixFinite(getMatrix(m))
inverse(m) == invert(setFromMatrix(getMatrix(m)))

\* the tolerance member TOL and the default tolerance of logMap; both lie below
\* the resolution of the modelled double and round to 0
TOL == Dec(1, 100000)
logMapTolerance == Dec(1, 10000)

\* an update that multiplies the increment on the right
manifoldPlusRight(m, omega, approx) == Compose(m, Block34(expMap(omega, TOL, approx)))

\* manifoldPlus: the matrix stored
manifoldPlus(m, omega, approx) ==
    LET Plus(incremental) ==
            IF AllFiniteMat(m) /\ AllFiniteMat(incremental)
            THEN Mat34(MatMul3(Block33(incremental), Block33(m)),
                       VecAdd3(MatVec3(Block33(incremental), Block31(m)),
                               Block31(incremental)))
            ELSE Mat34(NaNMat3, NaNVec3)
    IN Plus(expMap(omega, TOL, approx))

\* a difference taken against T instead of its inverse
manifoldMinusOfProduct(m, T, approx) == logMap(Compose(m, T), logMapTolerance, approx)

\* manifoldMinus past the check of inverse()
manifoldMinus(m, T, approx) == logMap(Compose(m, inverse(T)), logMapTolerance, approx)

\* normalizeMaybe: the matrix stored
normalizeMaybe(m, tolerance) ==
    \* Check if R has strayed too far outside SO(3) and if so normalize
    IF AllFiniteMat(m) /\ IsFinite(Det3(Block33(m))) /\ Det3(Block33(m)) - Scale > tolerance
    THEN LET R == Block33(m)
             temp == Inverse3(Sqrt3(MatMul3(R, Transpose3(R))))
         IN IF AllFiniteMat(temp) THEN Mat34(MatMul3(temp, R), Block31(m))
            ELSE Mat34(NaNMat3, Block31(m))
    ELSE m

\* a manifoldMinusAndJacobian whose J_right is the Jacobian of the log map alone
manifoldMinusAndJacobianOfLog(m, T, approx) ==
    LET Written(manifold_difference, J_logm) ==
            [twist |-> manifold_difference, J_left |-> J_logm, J_right |-> J_logm]
        Jacobians(manifold_difference) ==
            Written(manifold_difference,
                    IF approx THEN SE3ApproxInvLeftJacobian(manifold_difference)
                    ELSE Inverse6(SE3LeftJacobian(manifold_difference, Dec(1, 10000))))
    IN Jacobians(logMap(Compose(m, inverse(T)), logMapTolerance, approx))

\* manifoldMinusAndJacobian past the check of inverse(): the twist returned and
\* the two Jacobians written
manifoldMinusAndJacobian(m, T, approx) ==
    LET J_comp_inv(T2inv) ==
            LET R1R2t == MatMul3(Block33(m), Transpose3(Block33(T)))
                t1 == Block31(m)
                LL == MatSub3(MatMul3(MatNeg3(skewSymmetric3(t1)), R1R2t),
                              MatMul3(MatMul3(Block33(m), skewSymmetric3(Block31(T2inv))),
                                      Transpose3(Block33(T))))
            IN Blocks6(MatNeg3(R1R2t), ZeroMat3, LL, MatNeg3(R1R2t))
        Written(manifold_difference, J_logm, T2inv) ==
            [twist |-> manifold_difference, J_left |-> J_logm,
             J_right |-> IF AllFiniteMat(m) /\ AllFiniteMat(T) /\ AllFiniteMat(J_logm)
                         THEN MatMul6(J_logm, J_comp_inv(T2inv))
                         ELSE NaNMat6]
        Jacobians(manifold_difference, T2inv) ==
            Written(manifold_difference,
                    IF approx THEN SE3ApproxInvLeftJacobian(manifold_difference)
                    ELSE Inverse6(SE3LeftJacobian(manifold_difference, Dec(1, 10000))),
                    T2inv)
        Difference(T2inv) ==
            Jacobians(logMap(Compose(m, T2inv), logMapTolerance, approx), T2inv)
    IN Difference(inverse(T))

\* transform: op_vec
transform(m, ip_vec) == VecAdd3(MatVec3(Block33(m), ip_vec), Block31(m))

\* an inverse transform that adds the rotated translation
inverseTransformAdded(m, ip_vec) ==
    VecAdd3(MatVec3(Transpose3(Block33(m)), ip_vec),
            MatVec3(Transpose3(Block33(m)), Block31(m)))

\* inverseTransform: op_vec
inverseTransform(m, ip_vec) ==
    VecSub3(MatVec3(Transpose3(Block33(m)), ip_vec),
            MatVec3(Transpose3(Block33(m)), Block31(m)))

\* J.block<3, 3>(r, c) = B
SetBlock33(J, r, c, B) ==
    M6(LAMBDA i, j :
        IF r < i /\ i <= r + 3 /\ c < j /\ j <= c + 3 THEN B[i - r][j - c] ELSE J[i][j])

\* adjointRep: the Mat6 returned; retval is declared without an initializer, and
\* uninitialized stands for what its memory holds then
adjointRep(m, uninitialized) ==
    SetBlock33(SetBlock33(SetBlock33(uninitialized, 0, 0, Block33(m)),
                          3, 3, Block33(m)),
               3, 0, MatMul3(skewSymmetric3(Block31(m)), Block33(m)))

\* a composeAndJacobian that writes its blocks into J_right without clearing it
composeAndJacobianUncleared(m, T_right, J_left, J_right) ==
    [matrix |-> Compose(m, T_right),
     J_left |-> Identity6,
     J_right |-> SetBlock33(SetBlock33(SetBlock33(J_right, 0, 0, Block33(m)),
                                       3, 3, Block33(m)),
                            3, 0, MatMul3(skewSymmetric3(Block31(m)), Block33(m)))]

\* composeAndJacobian: the element returned and the two Jacobians written;
\* J_left and J_right are the output parameters as the caller hands them in
composeAndJacobian(m, T_right, J_left, J_right) ==
    [matrix |-> Compose(m, T_right),
     J_left |-> Identity6,
     J_right |-> SetBlock33(SetBlock33(SetBlock33(ZeroMat6, 0, 0, Block33(m)),
                                       3, 3, Block33(m)),
                            3, 0, MatMul3(skewSymmetric3(Block31(m)), Block33(m)))]

\* inverseAndJacobian past the check of inverse(): the element returned and the
\* Jacobian written
inverseAndJacobian(m) ==
    LET Written(retval) ==
            [matrix |-> retval,
             J |-> SetBlock33(SetBlock33(SetBlock33(ZeroMat6, 0, 0, MatNeg3(Block33(retval))),
                                         3, 3, MatNeg3(Block33(retval))),
                              3, 0, MatMul3(MatNeg3(skewSymmetric3(Block31(retval))),
                                            Block33(retval)))]
    IN Written(inverse(m))

\* bsfactor of interpolateAndJacobians; an index i stands for the source's i - 1
bsfactor(eps, twist_kp1) ==
    LET Twelfth(i, j) == Mul(Mul(eps[i], twist_kp1[j]), Dec(1, 12))
        Sixth(i, j) == Mul(Mul(eps[i], twist_kp1[j]), Dec(1, 6))
        Half(i) == Mul(twist_kp1[i], Dec(1, 2))
    IN <<
         <<FAdd(Twelfth(2, 2), Twelfth(3, 3)),
           FSub(FSub(Twelfth(1, 2), Half(3)), Sixth(2, 1)),
           FSub(FAdd(Half(2), Twelfth(1, 3)), Sixth(3, 1)),
           0,
           0,
           0>>,
         <<FAdd(FSub(Half(3), Sixth(1, 2)), Twelfth(2, 1)),
           FAdd(Twelfth(1, 1), Twelfth(3, 3)),
           FSub(FSub(Twelfth(2, 3), Half(1)), Sixth(3, 2)),
           0,
           0,
           0>>,
         <<FSub(FSub(Twelfth(3, 1), Sixth(1, 3)), Half(2)),
           FAdd(FSub(Half(1), Sixth(2, 3)), Twelfth(3, 2)),
           FAdd(Twelfth(1, 1), Twelfth(2, 2)),
           0,
           0,
           0>>,
         <<FAdd(FAdd(FAdd(Twelfth(2, 5), Twelfth(5, 2)), Twelfth(3, 6)), Twelfth(6, 3)),
           FSub(FAdd(FSub(FSub(Twelfth(1, 5), Half(6)), Sixth(2, 4)), Twelfth(4, 2)), Sixth(5, 1)),
           FSub(FAdd(FSub(FAdd(Half(5), Twelfth(1, 6)), Sixth(3, 4)), Twelfth(4, 3)), Sixth(6, 1)),
           FAdd(Twelfth(2, 2), Twelfth(3, 3)),
           FSub(FSub(Twelfth(1, 2), Half(3)), Sixth(2, 1)),
           FSub(FAdd(Half(2), Twelfth(1, 3)), Sixth(3, 1))>>,
         <<FAdd(FSub(FAdd(FSub(Half(6), Sixth(1, 5)), Twelfth(2, 4)), Sixth(4, 2)), Twelfth(5, 1)),
           FAdd(FAdd(FAdd(Twelfth(1, 4), Twelfth(4, 1)), Twelfth(3, 6)), Twelfth(6, 3)),
           FSub(FAdd(FSub(FSub(Twelfth(2, 6), Half(4)), Sixth(3, 5)), Twelfth(5, 3)), Sixth(6, 2)),
           FAdd(FSub(Half(3), Sixth(1, 2)), Twelfth(2, 1)),
           FAdd(Twelfth(1, 1), Twelfth(3, 3)),
           FSub(FSub(Twelfth(2, 3), Half(1)), Sixth(3, 2))>>,
         <<FAdd(FSub(FSub(FSub(Twelfth(3, 4), Sixth(1, 6)), Half(5)), Sixth(4, 3)), Twelfth(6, 1)),
           FAdd(FSub(FAdd(FSub(Half(4), Sixth(2, 6)), Twelfth(3, 5)), Sixth(5, 3)), Twelfth(6, 2)),
           FAdd(FAdd(FAdd(Twelfth(1, 4), Twelfth(4, 1)), Twelfth(2, 5)), Twelfth(5, 2)),
           FSub(FSub(Twelfth(3, 1), Sixth(1, 3)), Half(2)),
           FAdd(FSub(Half(1), Sixth(2, 3)), Twelfth(3, 2)),
           FAdd(Twelfth(1, 1), Twelfth(2, 2))>>
       >>

\* block<6, 6>(0, c) of a 6x12 matrix
Block66(M, c) == M6(LAMBDA i, j : M[i][c + j])

VecAdd6(a, b) == V6(LAMBDA i : FAdd(a[i], b[i]))

\* an interpolate that multiplies the increment on the right of T_k
interpolateRight(T_k, T_kp1, twist_k, twist_kp1, hat, candle, approx, OtherApprox) ==
    LET Increment(eps, J_left) ==
            VecAdd6(VecAdd6(MatVec6(Block66(hat, 6), twist_k),
                            MatVec6(Block66(candle, 0), eps)),
                    MatVec6(MatMul6(Block66(candle, 6), J_left), twist_kp1))
        Interpolated(d) ==
            [matrix |-> manifoldPlusRight(T_k, Increment(d.twist, d.J_left), approx)]
    IN Interpolated(manifoldMinusAndJacobian(T_kp1, T_k, OtherApprox))

\* interpolate past the check of inverse(): the element returned.  approx is the
\* template flag of the call, OtherApprox the flag of T_OTHER
interpolate(T_k, T_kp1, twist_k, twist_kp1, hat, candle, approx, OtherApprox) ==
    LET Increment(eps, J_left) ==
            VecAdd6(VecAdd6(MatVec6(Block66(hat, 6), twist_k),
                            MatVec6(Block66(candle, 0), eps)),
                    MatVec6(MatMul6(Block66(candle, 6), J_left), twist_kp1))
        Interpolated(d) ==
            [matrix |-> manifoldPlus(T_k, Increment(d.twist, d.J_left), approx)]
    IN Interpolated(manifoldMinusAndJacobian(T_kp1, T_k, OtherApprox))

\* interpolateAndJacobians: whether it raises, the element returned, the four
\* Jacobians written, and the flag each step was instantiated with.  approximate
\* is the flag of the class the static function belongs to and approx the
\* template flag of the call; T_inc.composeAndJacobian(T_k, ...) takes a
\* Transformation<Other, approx>, so T_OTHER carries the flag approx
interpolateAndJacobians(T_k, T_kp1, twist_k, twist_kp1, hat, candle, approximate_, approx) ==
    LET Outputs(increment, J_left, J_right, c, Jexp, bs) ==
            [raised |-> FALSE,
             matrix |-> c.matrix,
             J_Tk |-> MatAdd6(MatMul6(Jexp,
                                      MatAdd6(MatMul6(Block66(candle, 0), J_right),
                                              MatMul6(MatMul6(Block66(candle, 6), bs),
                                                      J_right))),
                              c.J_right),
             J_Tkp1 |-> MatMul6(Jexp,
                                MatAdd6(MatMul6(Block66(candle, 0), J_left),
                                        MatMul6(MatMul6(Block66(candle, 6), bs), J_left))),
             J_twist_k |-> MatMul6(Jexp, Block66(hat, 6)),
             J_twist_kp1 |-> MatMul6(MatMul6(Jexp, Block66(candle, 6)), J_left),
             increment |-> increment,
             mode |-> [eps |-> approx, T_inc |-> approx, retval |-> approx,
                       Jexp |-> approximate_]]
        Composed(increment, d) ==
            IF ~checkVectorFinite(increment) THEN [raised |-> TRUE]
            ELSE Outputs(increment, d.J_left, d.J_right,
                         composeAndJacobian(Block34(expMap(increment, TOL, approx)), T_k,
                                            NaNMat6, NaNMat6),
                         IF approximate_ THEN SE3ApproxLeftJacobian(increment)
                         ELSE SE3LeftJacobian(increment, Dec(1, 10000)),
                         bsfactor(d.twist, twist_kp1))
        Incremented(d) ==
            Composed(VecAdd6(VecAdd6(MatVec6(Block66(hat, 6), twist_k),
                                     MatVec6(Block66(candle, 0), d.twist)),
                             MatVec6(MatMul6(Block66(candle, 6), d.J_left), twist_kp1)),
                     d)
    IN IF inverseRaises(T_k) THEN [raised |-> TRUE]
       ELSE Incremented(manifoldMinusAndJacobian(T_kp1, T_k, approx))

\* ------------------------------------------------------------------ inputs

HalfPi == Rnd(Pi, 2)

EulerInputs == {Zero3, <<0, 0, HalfPi>>, <<Dec(1, 2), -Dec(3, 10), Scale>>}
TranslationInputs == {Zero3, <<Scale, 0, 0>>, <<0, Scale, 0>>, <<Dec(1, 2), -2 * Scale, Scale>>}
NonFiniteVec3 == {<<NaN, 0, 0>>, <<0, Inf, Scale>>}

\* twists of rotational norm 0, 0, 0.1, 0.62, 2 and 2
TwistInputs ==
    {Zero6,
     <<0, 0, 0, Scale, -2 * Scale, 0>>,
     <<0, Dec(1, 10), 0, Scale, -2 * Scale, 0>>,
     <<Dec(3, 10), -Dec(2, 10), Dec(1, 2), Scale, 2 * Scale, 0>>,
     <<0, 0, 2 * Scale, Scale, 0, 0>>,
     <<Dec(12, 10), -Dec(16, 10), 0, Scale, -2 * Scale, Dec(1, 2)>>}
NonFiniteTwists == {<<0, NaN, 0, 0, 0, 0>>, <<0, 0, 0, Inf, 0, 0>>, <<Scale, 0, 0, 0, 0, NegInf>>}

\* contents an external owner's buffer, or the argument of setFromMatrix, may hold:
\* a rotation with a translation, twice a rotation, half the identity, and the
\* identity and a half turn about z with round-off drift
RotationBuffer == <<<<0, -Scale, 0, 0>>, <<Scale, 0, 0, Scale>>, <<0, 0, Scale, 0>>>>
ScaledBuffer == <<<<2 * Scale, 0, 0, Scale>>, <<0, 0, -2 * Scale, 0>>, <<0, 2 * Scale, 0, 0>>>>
ShrunkBuffer == <<<<Dec(1, 2), 0, 0, 0>>, <<0, Dec(1, 2), 0, Scale>>, <<0, 0, Dec(1, 2), 0>>>>
DriftedIdentity ==
    <<<<Scale + Dec(1, 1000), 0, 0, Scale>>, <<0, Scale + Dec(1, 1000), 0, 0>>,
      <<0, 0, Scale + Dec(1, 1000), 0>>>>
DriftedHalfTurn ==
    <<<<-Scale - Dec(1, 1000), 0, 0, 0>>, <<0, -Scale - Dec(1, 1000), 0, Scale>>,
      <<0, 0, Scale, 0>>>>
Buffers == {RotationBuffer, ScaledBuffer, ShrunkBuffer, DriftedIdentity, DriftedHalfTurn}

MatrixInputs == {getMatrix(b) : b \in Buffers}
NonFiniteMatrices ==
    {<<<<Scale, 0, 0, 0>>, <<0, NaN, 0, 0>>, <<0, 0, Scale, 0>>, <<0, 0, 0, Scale>>>>,
     <<<<Scale, 0, 0, 0>>, <<0, Scale, 0, 0>>, <<0, 0, Scale, NegInf>>, <<0, 0, 0, Scale>>>>,
     <<<<Scale, 0, 0, 0>>, <<0, Scale, 0, 0>>, <<0, 0, Scale, 0>>, <<0, Inf, 0, Scale>>>>}

\* tolerances handed to expMap, logMap and SE3LeftJacobian, and to normalizeMaybe
ToleranceInputs == {0, Dec(1, 10), Dec(1, 2)}
NormalizeInputs == {Dec(1, 100), Dec(1, 10)}

\* the elements the three constructors make
Constructed ==
    {IdentityMatrix}
    \cup {setFromEulerXYZ(e, t) : e \in EulerInputs, t \in {<<Scale, 0, 0>>, <<0, Scale, 0>>}}
    \cup {setFromEulerXYZ(<<Dec(1, 2), -Dec(3, 10), Scale>>, <<Dec(1, 2), -2 * Scale, Scale>>)}
    \cup Buffers

\* the other elements handed to an operation as its argument
ArgumentElements ==
    {IdentityMatrix, setFromEulerXYZ(Zero3, <<0, Scale, 0>>),
     setFromEulerXYZ(<<0, 0, HalfPi>>, <<Scale, 0, 0>>),
     setFromEulerXYZ(<<Dec(1, 2), -Dec(3, 10), Scale>>, <<Dec(1, 2), -2 * Scale, Scale>>),
     ScaledBuffer}

\* points handed to transform and inverseTransform
PointInputs == {Zero3, <<Scale, 0, 0>>, <<Dec(1, 2), -2 * Scale, Scale>>}

\* what the memory of a Mat6 may hold before it is written: zeros, the bits of a
\* NaN, or values an earlier computation left there
StaleMat6 == M6(LAMBDA i, j : IF i = j THEN Scale ELSE Dec(7, 1000) * (i + j))
Mat6Contents == {ZeroMat6, NaNMat6, StaleMat6}

\* the 6x12 matrix of two 6x6 blocks
Blocks12(left, right) == V6(LAMBDA i : left[i] \o right[i])

\* hat and candle weights: those of the start of the interval, whose three blocks
\* used are zero, and those of a time inside it
StartWeights ==
    [hat |-> Blocks12(Identity6, ZeroMat6), candle |-> Blocks12(ZeroMat6, ZeroMat6)]
InnerWeights ==
    [hat |-> Blocks12(Identity6, MatScale6(Dec(1, 10), Identity6)),
     candle |-> Blocks12(MatScale6(Dec(1, 2), Identity6), MatScale6(-Dec(1, 20), Identity6))]
WeightInputs == {StartWeights, InnerWeights}

\* twist_k and twist_kp1 of an interpolation
VelocityInputs ==
    {[k |-> Zero6, kp1 |-> Zero6],
     [k |-> <<0, Dec(1, 10), 0, Scale, -2 * Scale, 0>>,
      kp1 |-> <<Dec(3, 10), -Dec(2, 10), Dec(1, 2), Scale, 2 * Scale, 0>>]}

\* the T_kp1 of an interpolation from T_k = *this
NextElements ==
    {IdentityMatrix, setFromEulerXYZ(<<0, 0, HalfPi>>, <<Scale, 0, 0>>),
     setFromEulerXYZ(<<Dec(1, 2), -Dec(3, 10), Scale>>, <<Dec(1, 2), -2 * Scale, Scale>>)}

\* ------------------------------------------------------------------- state

VARIABLES
    approximate,   \* the template flag of the element's type
    matrix,        \* *(this->matrix)
    op,            \* the operation last called
    arg,           \* its arguments
    retval,        \* what it returned or wrote to its output parameters
    raised,        \* whether it raised the precondition failure
    pre,           \* *(this->matrix) when it was called
    nops,          \* operations called so far
    argStored,     \* *(T.matrix) of each element argument after the call
    retStorage     \* the allocation the returned element's matrix pointer holds

vars == <<approximate, matrix, op, arg, retval, raised, pre, nops, argStored, retStorage>>

\* operations called in one run
MaxOps == 1

NoValue == [none |-> TRUE]

Init ==
    /\ approximate \in BOOLEAN
    /\ matrix \in Constructed
    /\ op = "construct"
    /\ arg = NoValue
    /\ retval = NoValue
    /\ raised = FALSE
    /\ pre = matrix
    /\ nops = 0
    /\ argStored = NoValue
    /\ retStorage = "none"

\* the element arguments among the arguments a of a call
ElementArguments(a) == [f \in DOMAIN a \cap {"T", "T_k", "T_kp1"} |-> a[f]]

\* a call whose returned element holds the receiver's matrix pointer
CallSharing(name, a, m, r, failed) ==
    /\ nops < MaxOps
    /\ op' = name
    /\ arg' = a
    /\ matrix' = m
    /\ retval' = r
    /\ raised' = failed
    /\ pre' = matrix
    /\ nops' = nops + 1
    /\ argStored' = ElementArguments(a)
    /\ retStorage' = IF ~failed /\ "matrix" \in DOMAIN r THEN "this" ELSE "none"
    /\ UNCHANGED approximate

\* one call: the operation, its arguments, the matrix it leaves, what it returns.
\* Element arguments are taken by const reference and left as they were; an
\* element returned by value was default-constructed by the operation, so its
\* matrix pointer holds a fresh allocation
Call(name, a, m, r, failed) ==
    /\ nops < MaxOps
    /\ op' = name
    /\ arg' = a
    /\ matrix' = m
    /\ retval' = r
    /\ raised' = failed
    /\ pre' = matrix
    /\ nops' = nops + 1
    /\ argStored' = ElementArguments(a)
    /\ retStorage' = IF ~failed /\ "matrix" \in DOMAIN r THEN "fresh" ELSE "none"
    /\ UNCHANGED approximate

\* ------------------------------------------------------ mutating operations

\* Transformation(eulers, translation): a new element replaces the old one unless
\* the constructor raises
Construct(eulers, translation) ==
    IF checkVectorFinite(eulers) /\ checkVectorFinite(translation)
    THEN Call("Transformation", [eulers |-> eulers, translation |-> translation],
              setFromEulerXYZ(eulers, translation), NoValue, FALSE)
    ELSE Call("Transformation", [eulers |-> eulers, translation |-> translation],
              matrix, NoValue, TRUE)

SetIdentity == Call("setIdentity", NoValue, IdentityMatrix, NoValue, FALSE)

SetFromEulerXYZ(eulers, translation) ==
    IF checkVectorFinite(eulers) /\ checkVectorFinite(translation)
    THEN Call("setFromEulerXYZ", [eulers |-> eulers, translation |-> translation],
              setFromEulerXYZ(eulers, translation), NoValue, FALSE)
    ELSE Call("setFromEulerXYZ", [eulers |-> eulers, translation |-> translation],
              matrix, NoValue, TRUE)

\* a setFromMatrix that stores its argument without the check
SetFromMatrixUnchecked(input_matrix) ==
    Call("setFromMatrix", [input_matrix |-> input_matrix],
         setFromMatrix(input_matrix), NoValue, FALSE)

SetFromMatrix(input_matrix) ==
    IF checkMatrixFinite(input_matrix)
    THEN Call("setFromMatrix", [input_matrix |-> input_matrix],
              setFromMatrix(input_matrix), NoValue, FALSE)
    ELSE Call("setFromMatrix", [input_matrix |-> input_matrix], matrix, NoValue, TRUE)

SetFromExpMap(se3_vector) ==
    IF checkVectorFinite(se3_vector)
    THEN Call("setFromExpMap", [W |-> se3_vector],
              Block34(expMap(se3_vector, TOL, approximate)), NoValue, FALSE)
    ELSE Call("setFromExpMap", [W |-> se3_vector], matrix, NoValue, TRUE)

ManifoldPlus(omega) ==
    Call("manifoldPlus", [W |-> omega], manifoldPlus(matrix, omega, approximate), NoValue, FALSE)

Invert == Call("invert", NoValue, invert(matrix), NoValue, FALSE)

NormalizeMaybe(tolerance) ==
    Call("normalizeMaybe", [tolerance |-> tolerance], normalizeMaybe(matrix, tolerance),
         NoValue, FALSE)

DeepCopy(T) == Call("deepCopy", [T |-> T], T, NoValue, FALSE)

\* ----------------------------------------------------- read-only operations

\* operator*
Multiply(T) == Call("operator*", [T |-> T], matrix, [matrix |-> Compose(matrix, T)], FALSE)

Inverse ==
    IF inverseRaises(matrix) THEN Call("inverse", NoValue, matrix, NoValue, TRUE)
    ELSE Call("inverse", NoValue, matrix, [matrix |-> inverse(matrix)], FALSE)

LogMap(tolerance) ==
    Call("logMap", [tolerance |-> tolerance], matrix,
         logMapFull(matrix, tolerance, approximate), FALSE)

ManifoldMinus(T) ==
    IF inverseRaises(T) THEN Call("manifoldMinus", [T |-> T], matrix, NoValue, TRUE)
    ELSE Call("manifoldMinus", [T |-> T], matrix,
              [twist |-> manifoldMinus(matrix, T, approximate)], FALSE)

ManifoldMinusAndJacobian(T) ==
    IF inverseRaises(T) THEN Call("manifoldMinusAndJacobian", [T |-> T], matrix, NoValue, TRUE)
    ELSE Call("manifoldMinusAndJacobian", [T |-> T], matrix,
              manifoldMinusAndJacobian(matrix, T, approximate), FALSE)

Transform(ip_vec) ==
    Call("transform", [p |-> ip_vec], matrix, [point |-> transform(matrix, ip_vec)], FALSE)

InverseTransform(ip_vec) ==
    Call("inverseTransform", [p |-> ip_vec], matrix,
         [point |-> inverseTransform(matrix, ip_vec)], FALSE)

\* adjointRep; uninitialized is what the memory of its local Mat6 holds
AdjointRep(uninitialized) ==
    Call("adjointRep", NoValue, matrix, [adjoint |-> adjointRep(matrix, uninitialized)], FALSE)

ComposeAndJacobian(T_right, J_left, J_right) ==
    Call("composeAndJacobian", [T |-> T_right, J_left |-> J_left, J_right |-> J_right],
         matrix, composeAndJacobian(matrix, T_right, J_left, J_right), FALSE)

InverseAndJacobian ==
    IF inverseRaises(matrix) THEN Call("inverseAndJacobian", NoValue, matrix, NoValue, TRUE)
    ELSE Call("inverseAndJacobian", NoValue, matrix, inverseAndJacobian(matrix), FALSE)

\* the static interpolate and interpolateAndJacobians, called with T_k = *this
Interpolate(T_kp1, twists, weights, approx, OtherApprox) ==
    IF inverseRaises(matrix)
    THEN Call("interpolate",
              [T_k |-> matrix, T_kp1 |-> T_kp1, twists |-> twists, weights |-> weights,
               approx |-> approx, OtherApprox |-> OtherApprox],
              matrix, NoValue, TRUE)
    ELSE Call("interpolate",
              [T_k |-> matrix, T_kp1 |-> T_kp1, twists |-> twists, weights |-> weights,
               approx |-> approx, OtherApprox |-> OtherApprox],
              matrix,
              interpolate(matrix, T_kp1, twists.k, twists.kp1, weights.hat, weights.candle,
                          approx, OtherApprox),
              FALSE)

InterpolateAndJacobians(T_kp1, twists, weights, approx) ==
    LET Returned(r) ==
            Call("interpolateAndJacobians",
                 [T_k |-> matrix, T_kp1 |-> T_kp1, twists |-> twists, weights |-> weights,
                  approx |-> approx],
                 matrix, IF r.raised THEN NoValue ELSE r, r.raised)
    IN Returned(interpolateAndJacobians(matrix, T_kp1, twists.k, twists.kp1, weights.hat,
                                        weights.candle, approximate, approx))

\* the caller writes to the element an operation returned: retval.setIdentity()
\* stores the identity in the allocation the element's matrix pointer holds
MutateReturned ==
    /\ retStorage # "none"
    /\ op # "retval.setIdentity"
    /\ op' = "retval.setIdentity"
    /\ retval' = [retval EXCEPT !.matrix = IdentityMatrix]
    /\ matrix' = IF retStorage = "this" THEN IdentityMatrix ELSE matrix
    /\ argStored' = [f \in DOMAIN argStored |->
                        IF retStorage = f THEN IdentityMatrix ELSE argStored[f]]
    /\ UNCHANGED <<approximate, arg, raised, pre, nops, retStorage>>

\* the static expMap and SE3LeftJacobian
ExpMap(W, tolerance) ==
    Call("expMap", [W |-> W, tolerance |-> tolerance], matrix,
         expMapFull(W, tolerance, approximate), FALSE)

LeftJacobian(W, tolerance) ==
    Call("SE3LeftJacobian", [W |-> W, tolerance |-> tolerance], matrix,
         SE3LeftJacobianFull(W, tolerance), FALSE)

\* the twist the last operation returned, for a caller that passes it on to
\* manifoldPlus; a twist with an entry beyond 4 is left out, its products being
\* out of the range of the modelled doubles
ReturnedTwist ==
    IF op \in {"logMap", "manifoldMinus", "manifoldMinusAndJacobian"} /\ ~raised
    THEN {w \in {retval.twist} :
             \A i \in DOMAIN w : IsFinite(w[i]) /\ Abs(w[i]) <= 4 * Scale}
    ELSE {}

Next ==
    \/ \E e \in EulerInputs \cup NonFiniteVec3, t \in TranslationInputs \cup NonFiniteVec3 :
          Construct(e, t)
    \/ SetIdentity
    \/ \E e \in EulerInputs \cup NonFiniteVec3, t \in TranslationInputs \cup NonFiniteVec3 :
          SetFromEulerXYZ(e, t)
    \/ \E M \in MatrixInputs \cup NonFiniteMatrices : SetFromMatrix(M)
    \/ \E W \in TwistInputs \cup NonFiniteTwists : SetFromExpMap(W)
    \/ \E W \in TwistInputs \cup ReturnedTwist : ManifoldPlus(W)
    \/ Invert
    \/ \E tolerance \in NormalizeInputs : NormalizeMaybe(tolerance)
    \/ \E T \in ArgumentElements : DeepCopy(T)
    \/ \E T \in ArgumentElements \cup {matrix} : Multiply(T)
    \/ Inverse
    \/ \E tolerance \in ToleranceInputs : LogMap(tolerance)
    \/ \E T \in ArgumentElements \cup {matrix} : ManifoldMinus(T)
    \/ \E T \in ArgumentElements \cup {matrix} : ManifoldMinusAndJacobian(T)
    \/ \E W \in TwistInputs, tolerance \in ToleranceInputs : ExpMap(W, tolerance)
    \/ \E W \in TwistInputs, tolerance \in ToleranceInputs : LeftJacobian(W, tolerance)
    \/ \E p \in PointInputs : Transform(p)
    \/ \E p \in PointInputs : InverseTransform(p)
    \/ \E uninitialized \in Mat6Contents : AdjointRep(uninitialized)
    \/ \E T \in ArgumentElements, J_left \in Mat6Contents, J_right \in Mat6Contents :
          ComposeAndJacobian(T, J_left, J_right)
    \/ InverseAndJacobian
    \/ \E T_kp1 \in NextElements, twists \in VelocityInputs, weights \in WeightInputs,
          approx \in BOOLEAN, OtherApprox \in BOOLEAN :
          Interpolate(T_kp1, twists, weights, approx, OtherApprox)
    \/ \E T_kp1 \in NextElements, twists \in VelocityInputs, weights \in WeightInputs,
          approx \in BOOLEAN :
          InterpolateAndJacobians(T_kp1, twists, weights, approx)
    \/ MutateReturned

Spec == Init /\ [][Next]_vars

\* ------------------------------------------------------------- properties

\* the floating tolerance of the "approximately equal" of the laws, and the drift
\* within which a rotation block counts as orthonormal with determinant +1
Tolerance == Dec(1, 100)
DriftTolerance == Dec(3, 1000)

CloseVec(a, b, tol) ==
    /\ AllFiniteVec(a) /\ AllFiniteVec(b)
    /\ \A i \in DOMAIN a : Abs(a[i] - b[i]) <= tol
CloseMat(A, B, tol) == \A i \in DOMAIN A : CloseVec(A[i], B[i], tol)

\* the largest magnitude among the entries of a finite matrix
LargestEntry(M) ==
    LET mags == {Abs(M[i][j]) : i \in DOMAIN M, j \in 1..4}
    IN CHOOSE r \in mags : \A q \in mags : q <= r

\* A and B are entrywise equal up to the floating tolerance, taken relative to
\* the size of B's entries where they exceed 1
CloseRelative(A, B) == CloseMat(A, B, Mul(Tolerance, Scale + LargestEntry(B)))

\* R is orthonormal with determinant +1, up to the drift tol
IsRotationWithin(m, tol) ==
    /\ AllFiniteMat(m)
    /\ CloseMat(MatMul3(Block33(m), Transpose3(Block33(m))), Identity3, tol)
    /\ IsFinite(Det3(Block33(m))) /\ Abs(Det3(Block33(m)) - Scale) <= tol

\* R is orthonormal with determinant +1, up to the drift tolerance
IsRotation(m) == IsRotationWithin(m, DriftTolerance)

\* C = A * B entry by entry: C.R = A.R * B.R and C.t = A.R * B.t + A.t
IsProduct(C, A, B) ==
    /\ \A i \in I3, j \in I3 :
          C[i][j] = Mul(A[i][1], B[1][j]) + Mul(A[i][2], B[2][j]) + Mul(A[i][3], B[3][j])
    /\ \A i \in I3 :
          C[i][4] = Mul(A[i][1], B[1][4]) + Mul(A[i][2], B[2][4]) + Mul(A[i][3], B[3][4])
                    + A[i][4]

\* (R', t') = (R^T, -R^T t) entry by entry
IsInverseOf(N, m) ==
    /\ \A i \in I3, j \in I3 : N[i][j] = m[j][i]
    /\ \A i \in I3 :
          N[i][4] = -(Mul(m[1][i], m[1][4]) + Mul(m[2][i], m[2][4]) + Mul(m[3][i], m[3][4]))

\* C1: operator* returns a new element C with C.R = A.R * B.R and
\* C.t = A.R * B.t + A.t and leaves its operand as it was; two elements with
\* identity rotation and translations t1, t2 compose to identity rotation and
\* translation t1 + t2
C1_ComposeFormula ==
    op = "operator*" /\ AllFiniteMat(pre) /\ AllFiniteMat(arg.T) =>
        /\ matrix = pre
        /\ IsProduct(retval.matrix, pre, arg.T)
        /\ (Block33(pre) = Identity3 /\ Block33(arg.T) = Identity3 =>
               /\ Block33(retval.matrix) = Identity3
               /\ Block31(retval.matrix) = VecAdd3(Block31(pre), Block31(arg.T)))

\* translation (1, 0, 0) composed with translation (0, 1, 0) gave (1, 1, 0)
C1_Witness ==
    /\ op = "operator*"
    /\ pre = Mat34(Identity3, <<Scale, 0, 0>>)
    /\ arg.T = Mat34(Identity3, <<0, Scale, 0>>)
    /\ retval.matrix = Mat34(Identity3, <<Scale, Scale, 0>>)

\* C2: for an element with orthonormal rotation block, invert() replaces (R, t)
\* by (R^T, -R^T t) in place, inverse() returns that element, and the element
\* composed with its inverse, in either order, is the identity up to the
\* floating tolerance
C2_InverseLaw ==
    /\ op = "invert" /\ IsRotation(pre) =>
          /\ IsInverseOf(matrix, pre)
          /\ CloseMat(Compose(pre, matrix), IdentityMatrix, Tolerance)
          /\ CloseMat(Compose(matrix, pre), IdentityMatrix, Tolerance)
    /\ op = "inverse" /\ IsRotation(pre) =>
          /\ ~raised /\ matrix = pre
          /\ IsInverseOf(retval.matrix, pre)
          /\ CloseMat(Compose(pre, retval.matrix), IdentityMatrix, Tolerance)
          /\ CloseMat(Compose(retval.matrix, pre), IdentityMatrix, Tolerance)

\* an element with a rotation that is not the identity and a translation that
\* is not zero was inverted in place
C2_Witness ==
    /\ op = "invert" /\ IsRotation(pre)
    /\ Block33(pre) # Identity3 /\ Block31(pre) # Zero3
    /\ matrix # pre

\* the operations that change the stored matrix
MutatingOperations ==
    {"setIdentity", "setFromEulerXYZ", "setFromMatrix", "setFromExpMap", "manifoldPlus",
     "invert", "normalizeMaybe", "deepCopy"}

\* C3: a mutating operation called on an element whose rotation block is
\* orthonormal with determinant +1 (up to the drift tolerance) leaves a rotation
\* block that is orthonormal with determinant +1, up to the drift tolerance and
\* the round-off of the one operation
C3_RotationInvariant ==
    op \in MutatingOperations /\ ~raised /\ IsRotation(pre) =>
        IsRotationWithin(matrix, DriftTolerance + Tolerance)

\* C4: after normalizeMaybe(tolerance) on a rotation block with non-zero
\* determinant, the determinant is 1 within tolerance and the translation block
\* is the one before the call
C4_NormalizedDeterminant ==
    op = "normalizeMaybe" /\ AllFiniteMat(pre) /\ Det3(Block33(pre)) # 0 =>
        /\ Abs(Det3(Block33(matrix)) - Scale) <= arg.tolerance
        /\ Block31(matrix) = Block31(pre)

\* the input of the setter last called holds a NaN or an infinite entry
NonFiniteInput ==
    CASE op \in {"Transformation", "setFromEulerXYZ"} ->
             ~AllFiniteVec(arg.eulers) \/ ~AllFiniteVec(arg.translation)
      [] op = "setFromMatrix" -> ~AllFiniteMat(arg.input_matrix)
      [] op = "setFromExpMap" -> ~AllFiniteVec(arg.W)
      [] OTHER -> FALSE

\* C5: a setter given an input with a NaN or infinite entry signals the
\* precondition failure and leaves the stored matrix as it was before the call;
\* no setter stores a non-finite value
C5_SettersRejectNonFinite ==
    op \in {"Transformation", "setFromEulerXYZ", "setFromMatrix", "setFromExpMap"} =>
        /\ NonFiniteInput => raised /\ matrix = pre
        /\ AllFiniteMat(pre) => AllFiniteMat(matrix)

\* setFromMatrix was handed a matrix whose bottom row is not finite, raised and
\* left the stored matrix as it was
C5_Witness ==
    /\ op = "setFromMatrix" /\ NonFiniteInput
    /\ ~AllFiniteVec(arg.input_matrix[4])
    /\ raised /\ matrix = pre

\* C6: logMap never hands std::acos an argument outside [-1, 1], and when
\* (trace(R) - 1) / 2 is above 1 the angle is 0 and the twist is finite
C6_AcosInDomain ==
    op = "logMap" /\ AllFiniteMat(pre) =>
        /\ retval.acosCalled => -Scale <= retval.acosArg /\ retval.acosArg <= Scale
        /\ IsFinite(Trace3(Block33(pre))) /\ Trace3(Block33(pre)) - Scale > 2 * Scale =>
               retval.wn = 0 /\ AllFiniteVec(retval.twist)

\* the branch an exact-mode result r took for the angle theta and the tolerance
\* tol: Taylor without a division and with a finite value v when theta <= tol,
\* trigonometric only when theta > tol
SmallAngleBranch(r, theta, tol, v) ==
    /\ theta <= tol => r.branch = "taylor" /\ r.divisors = {} /\ AllFiniteMat(v)
    /\ r.branch = "trig" => theta > tol
    /\ r.branch \in {"taylor", "trig"}

\* C7: for a rotational norm theta with 0 <= theta <= tol, theta = 0 included,
\* the exact-mode expMap, logMap and SE3LeftJacobian take the Taylor branch,
\* divide by nothing and return a finite result; the trigonometric branch is
\* taken only when theta > tol
C7_SmallAngleTaylor ==
    /\ op = "expMap" /\ ~approximate =>
          SmallAngleBranch(retval, Norm3(Head3(arg.W)), arg.tolerance, retval.m)
    /\ op = "SE3LeftJacobian" =>
          SmallAngleBranch(retval, Norm3(Head3(arg.W)), arg.tolerance, retval.J)
    /\ op = "logMap" /\ ~approximate /\ IsFinite(retval.wn) =>
          SmallAngleBranch(retval, retval.wn, arg.tolerance, <<retval.twist>>)

\* expMap met a rotational norm equal to a tolerance above zero and took the
\* Taylor branch
C7_Witness ==
    /\ op = "expMap" /\ ~approximate
    /\ arg.tolerance > 0 /\ Norm3(Head3(arg.W)) = arg.tolerance
    /\ retval.branch = "taylor" /\ retval.divisors = {}

\* the twist w was recovered: within the floating tolerance where inMode holds,
\* and exactly when its rotational part is zero
Recovered(back, w, inMode) ==
    /\ inMode => CloseVec(back, w, Tolerance)
    /\ Head3(w) = Zero3 => back = w

\* C8 as stated: for a twist w of rotational norm below pi, logMap of the
\* element set from exp(w) is w up to the floating tolerance, in exact and in
\* approximate mode, and exactly w when the rotational part of w is zero
C8_RoundTripBothModes ==
    op = "setFromExpMap" /\ ~raised /\ Norm3(Head3(arg.W)) < Pi =>
        Recovered(logMap(matrix, logMapTolerance, approximate), arg.W, TRUE)

\* C8 amended: for a twist w of rotational norm below pi, logMap of the element
\* set from exp(w) is w up to the floating tolerance in exact mode, and exactly
\* w in both modes when the rotational part of w is zero
C8_RoundTripExactMode ==
    op = "setFromExpMap" /\ ~raised /\ Norm3(Head3(arg.W)) < Pi =>
        Recovered(logMap(matrix, logMapTolerance, approximate), arg.W, ~approximate)

\* an exact-mode element was set from a twist of rotational norm above 1 and
\* its logMap is that twist up to the floating tolerance
C8_Witness ==
    /\ op = "setFromExpMap" /\ ~raised /\ ~approximate
    /\ Norm3(Head3(arg.W)) > Scale /\ Tail3(arg.W) # Zero3
    /\ CloseVec(logMap(matrix, logMapTolerance, approximate), arg.W, Tolerance)

\* manifoldPlus multiplied exp(twist) on the left of the element, and left the
\* element as it was when the twist is zero
LeftUpdate ==
    op = "manifoldPlus" /\ AllFiniteMat(pre) /\ AllFiniteVec(arg.W) =>
        /\ IsProduct(matrix, expMap(arg.W, TOL, approximate), pre)
        /\ arg.W = Zero6 => matrix = pre

\* the rotation angle up to which a rotation matrix known to one unit determines
\* its angle to well within the floating tolerance: nearer to pi the sine that
\* logMap divides by is small, and the rounding of the matrix is magnified
WellConditioned == Dec(25, 10)

\* manifoldPlus of the twist that T'.manifoldMinus(T) returned, applied to a
\* copy of T, gives T' up to the relative floating tolerance, where inMode holds
PlusInvertsMinus(inMode) ==
    op = "manifoldMinus" /\ ~raised /\ IsRotation(pre) /\ IsRotation(arg.T)
    /\ AllFiniteVec(retval.twist) /\ Norm3(Head3(retval.twist)) <= WellConditioned
    /\ inMode =>
        CloseRelative(manifoldPlus(arg.T, retval.twist, approximate), matrix)

C10_MinusSelfIsZero ==
    op \in {"manifoldMinus", "manifoldMinusAndJacobian"} /\ ~raised
    /\ arg.T = pre /\ IsRotation(pre) =>
        /\ Head3(retval.twist) = Zero3
        /\ CloseVec(retval.twist, Zero6, Tolerance)

\* an element with a rotation and a translation was subtracted from itself by
\* manifoldMinusAndJacobian in approximate mode
C10_Witness ==
    /\ op = "manifoldMinusAndJacobian" /\ ~raised /\ approximate
    /\ arg.T = pre /\ IsRotation(pre)
    /\ Block33(pre) # Identity3 /\ Block31(pre) # Zero3
    /\ CloseVec(retval.twist, Zero6, Tolerance)

\* C12: inverseTransform(p) is inverse().transform(p), that is R^T p - R^T t, and
\* leaves T unchanged; and for an orthonormal R, inverseTransform(transform(p)) is
\* p, where transform(p) is R p + t
C12_InverseTransform ==
    /\ op = "inverseTransform" =>
          /\ matrix = pre
          /\ retval.point = transform(inverse(pre), arg.p)
          /\ retval.point = VecSub3(MatVec3(Transpose3(Block33(pre)), arg.p),
                                    MatVec3(Transpose3(Block33(pre)), Block31(pre)))
    /\ op = "transform" =>
          /\ matrix = pre
          /\ retval.point = VecAdd3(MatVec3(Block33(pre), arg.p), Block31(pre))
          /\ IsRotation(pre) => CloseVec(inverseTransform(pre, retval.point), arg.p, Tolerance)

\* a point other than the origin was taken through the inverse of an element with
\* a rotation and a translation, and transform brings it back
C12_Witness ==
    /\ op = "inverseTransform" /\ IsRotation(pre)
    /\ Block33(pre) # Identity3 /\ Block31(pre) # Zero3 /\ arg.p # Zero3
    /\ retval.point # arg.p
    /\ CloseVec(transform(pre, retval.point), arg.p, Tolerance)

\* C13: adjointRep() returns the 6x6 block matrix [[R, 0], [skew3(t) R, R]]: every
\* entry is a function of the element alone and the upper-right block is zero
C13_AdjointDetermined ==
    op = "adjointRep" =>
        retval.adjoint = Blocks6(Block33(pre), ZeroMat3,
                                 MatMul3(skewSymmetric3(Block31(pre)), Block33(pre)),
                                 Block33(pre))

\* C14: composeAndJacobian(T_right, J_left, J_right) returns the element operator*
\* returns, sets J_left to the 6x6 identity and J_right to the adjoint
\* representation [[R, 0], [skew3(t) R, R]] of the receiver, whatever T_right is
\* and whatever J_left and J_right held before
C14_ComposeJacobians ==
    op = "composeAndJacobian" =>
        /\ matrix = pre
        /\ retval.matrix = Compose(pre, arg.T)
        /\ retval.J_left = Identity6
        /\ retval.J_right = Blocks6(Block33(pre), ZeroMat3,
                                    MatMul3(skewSymmetric3(Block31(pre)), Block33(pre)),
                                    Block33(pre))

\* an element with a rotation and a translation was composed with another element,
\* with output parameters that held stale values and NaNs
C14_Witness ==
    /\ op = "composeAndJacobian"
    /\ Block33(pre) # Identity3 /\ Block31(pre) # Zero3 /\ arg.T # IdentityMatrix
    /\ arg.J_left = NaNMat6 /\ arg.J_right = StaleMat6
    /\ retval.J_left = Identity6
    /\ retval.J_right[1][4] = 0 /\ retval.J_right[4][1] # 0

\* C15: one call of interpolateAndJacobians uses a single mode throughout: the log
\* map that gives eps, the exponential map that builds T_inc, the type of the
\* element returned and the left Jacobian Jexp are all exact or all approximate,
\* so that J_twist_k = Jexp * hat.block<6, 6>(0, 6) is built from the left
\* Jacobian of the mode the element was built in
C15_SingleMode ==
    op = "interpolateAndJacobians" /\ ~raised =>
        /\ retval.mode.eps = retval.mode.T_inc
        /\ retval.mode.T_inc = retval.mode.retval
        /\ retval.mode.retval = retval.mode.Jexp
        /\ retval.J_twist_k =
              MatMul6(IF retval.mode.retval THEN SE3ApproxLeftJacobian(retval.increment)
                      ELSE SE3LeftJacobian(retval.increment, Dec(1, 10000)),
                      Block66(arg.weights.hat, 6))

\* the three blocks of the weights that the interpolation reads are zero, as at
\* the start of the interval
StartOfInterval(weights) ==
    /\ Block66(weights.hat, 6) = ZeroMat6
    /\ Block66(weights.candle, 0) = ZeroMat6
    /\ Block66(weights.candle, 6) = ZeroMat6

\* C16: with the weights of the start of the interval, interpolate and
\* interpolateAndJacobians return an element equal to T_k, for every valid T_k and
\* T_kp1 and all finite twists
C16_StartReproducesTk ==
    op \in {"interpolate", "interpolateAndJacobians"} /\ StartOfInterval(arg.weights)
    /\ IsRotation(arg.T_k) /\ IsRotation(arg.T_kp1)
    /\ AllFiniteVec(arg.twists.k) /\ AllFiniteVec(arg.twists.kp1) =>
        ~raised /\ retval.matrix = arg.T_k

\* interpolate returned what interpolateAndJacobians returns for the same inputs
\* and mode: both computed the increment hat.block<6, 6>(0, 6) * twist_k +
\* candle.block<6, 6>(0, 0) * eps + candle.block<6, 6>(0, 6) * J_left * twist_kp1,
\* and manifoldPlus(increment) on a copy of T_k gave the R and t of
\* setFromExpMap(increment) composed with T_k.  With always = FALSE this is asked
\* only when the increment is finite; a non-finite increment then makes
\* interpolateAndJacobians raise and interpolate return a non-finite element
SameInterpolation(always) ==
    LET Increment(d) ==
            VecAdd6(VecAdd6(MatVec6(Block66(arg.weights.hat, 6), arg.twists.k),
                            MatVec6(Block66(arg.weights.candle, 0), d.twist)),
                    MatVec6(MatMul6(Block66(arg.weights.candle, 6), d.J_left),
                            arg.twists.kp1))
        Agree(increment, r) ==
            IF always \/ AllFiniteVec(increment)
            THEN /\ ~r.raised
                 /\ r.increment = increment
                 /\ r.matrix = Compose(Block34(expMap(increment, TOL, arg.approx)), arg.T_k)
                 /\ retval.matrix = r.matrix
            ELSE r.raised /\ ~AllFiniteMat(retval.matrix)
    IN op = "interpolate" /\ ~raised /\ arg.approx = arg.OtherApprox =>
          Agree(Increment(manifoldMinusAndJacobian(arg.T_kp1, arg.T_k, arg.approx)),
                interpolateAndJacobians(arg.T_k, arg.T_kp1, arg.twists.k, arg.twists.kp1,
                                        arg.weights.hat, arg.weights.candle,
                                        approximate, arg.approx))

AdjointOf(A) ==
    Blocks6(Block33(A), ZeroMat3, MatMul3(skewSymmetric3(Block31(A)), Block33(A)),
            Block33(A))

\* the Jacobian of A * inverse(B) with respect to B:
\* [[-Ra Rb^T, 0], [-skew3(ta) Ra Rb^T - Ra skew3(t') Rb^T, -Ra Rb^T]], where t' is
\* the translation of inverse(B)
DifferenceJacobian(A, B) ==
    LET RaRbt == MatMul3(Block33(A), Transpose3(Block33(B)))
    IN Blocks6(MatNeg3(RaRbt), ZeroMat3,
               MatSub3(MatMul3(MatNeg3(skewSymmetric3(Block31(A))), RaRbt),
                       MatMul3(MatMul3(Block33(A), skewSymmetric3(Block31(inverse(B)))),
                               Transpose3(Block33(B)))),
               MatNeg3(RaRbt))

\* A.manifoldMinusAndJacobian(B, J_left, J_right) returned the twist of
\* A.manifoldMinus(B), wrote to J_left the inverse left Jacobian at that twist, and
\* to J_right the product of J_left with the Jacobian Jcompose
MinusJacobians(Jcompose) ==
    op = "manifoldMinusAndJacobian" /\ ~raised =>
        /\ matrix = pre
        /\ retval.twist = manifoldMinus(pre, arg.T, approximate)
        /\ retval.J_left = IF approximate THEN SE3ApproxInvLeftJacobian(retval.twist)
                           ELSE Inverse6(SE3LeftJacobian(retval.twist, Dec(1, 10000)))
        /\ AllFiniteMat(pre) /\ AllFiniteMat(arg.T) /\ AllFiniteMat(retval.J_left) =>
              retval.J_right = MatMul6(retval.J_left, Jcompose)

\* C18: A.manifoldMinusAndJacobian(B, J_left, J_right) returns the twist of
\* A.manifoldMinus(B), sets J_left to the inverse left Jacobian at that twist, and
\* J_right to J_left times the Jacobian of compose(A, inverse(B)) with respect to
\* its right operand, the adjoint representation of A that composeAndJacobian
\* returns
C18_MinusJacobiansAdjoint ==
    MinusJacobians(composeAndJacobian(pre, inverse(arg.T), ZeroMat6, ZeroMat6).J_right)

\* C18 amended: J_right is J_left times the Jacobian of A * inverse(B) with respect
\* to B, which for valid elements is the adjoint representation of A times the
\* Jacobian of the inversion that inverseAndJacobian writes
C18_MinusJacobiansChained ==
    /\ MinusJacobians(DifferenceJacobian(pre, arg.T))
    /\ op = "manifoldMinusAndJacobian" /\ ~raised /\ IsRotation(pre) /\ IsRotation(arg.T) =>
          CloseRelative(MatMul6(AdjointOf(pre), inverseAndJacobian(arg.T).J),
                        DifferenceJacobian(pre, arg.T))

\* the difference of two distinct valid elements with translations was taken, and
\* its J_right is not J_left times the adjoint of the receiver
C18_Witness ==
    /\ op = "manifoldMinusAndJacobian" /\ ~raised
    /\ IsRotation(pre) /\ IsRotation(arg.T) /\ arg.T # pre
    /\ Block31(pre) # Zero3 /\ Block31(arg.T) # Zero3
    /\ AllFiniteMat(retval.J_left) /\ AllFiniteMat(retval.J_right)
    /\ retval.J_right = MatMul6(retval.J_left, DifferenceJacobian(pre, arg.T))
    /\ retval.J_right # MatMul6(retval.J_left, AdjointOf(pre))

\* the operations declared const or static that take or return elements
ReadOnlyOperations ==
    {"inverse", "operator*", "composeAndJacobian", "inverseAndJacobian", "transform",
     "inverseTransform", "logMap", "manifoldMinus", "manifoldMinusAndJacobian",
     "adjointRep", "interpolate", "interpolateAndJacobians"}

\* the operations among them that return an element
ElementOperations ==
    {"inverse", "operator*", "composeAndJacobian", "inverseAndJacobian", "interpolate",
     "interpolateAndJacobians"}

====
